---- MODULE Spec2Model ----
(***************************************************************************)
(* Model of the knowledge-base frontend's chat pipeline:                   *)
(*   - the axios API client with its JWT request/response interceptors     *)
(*     (frontend/src/api/client.ts), specification Spec;                   *)
(*   - the chat store (frontend/src/stores/chat.ts), specification         *)
(*     SpecChat;                                                           *)
(*   - the streaming consumer chatApi.streamMessage                        *)
(*     (frontend/src/router/index.ts), specification SpecStream;           *)
(*   - the Chat view's handleSend over the store, specification SpecView;  *)
(*   - login, logout and fetchUser (frontend/src/api/auth.ts and the auth  *)
(*     store) over the API client, specification SpecAuth.                 *)
(* The event loop is single-threaded: every action below is one task of    *)
(* the loop (a synchronous run of code up to its next await, with the      *)
(* microtasks it queues).  Network responses arrive in any order.          *)
(***************************************************************************)
EXTENDS Integers, Sequences, FiniteSets, TLC

(* ------------------------------ bounds --------------------------------- *)
\* number of API calls issued through apiClient
NumRequests == 3
\* number of token pairs the server ever issues (the pair of the login included)
MaxGen == 2
\* number of store actions started (sendMessage, fetchSessions, createSession,
\* loadSession, deleteSession)
MaxCalls == 3
\* number of sessions the server knows
NumSessions == 2
\* number of lines of a streamed response
MaxLines == 2

Requests == 1..NumRequests
NoToken == 0
Tokens == 1..MaxGen

VARIABLES
    \* ---- api/client.ts ----
    accessToken,         \* localStorage['access_token'], NoToken when absent
    refreshToken,        \* localStorage['refresh_token'], NoToken when absent
    isRefreshing,        \* module flag
    refreshSubscribers,  \* module list of continuations (one per waiting request)
    location,            \* window.location.href: "app" or "login"
    req,                 \* the requests given to apiClient and their callers' promises
    refreshCalls,        \* POST /auth/refresh calls in flight
    srvValid,            \* access tokens the server accepts
    nextGen,             \* next token pair the server will issue
    \* ---- history of the client, for the properties ----
    refreshTotal,        \* number of refresh calls issued so far
    expired401,          \* tokens carried by the 401'd requests that were eligible for a refresh
    lateArrival,         \* an eligible 401 was handled after an earlier refresh had settled
    \* ---- stores/chat.ts ----
    sessions, currentSession, messages, loading, sending, error, streamingContent,
    calls,               \* store actions suspended at their await
    clock,               \* Date.now(): one tick per store action started
    srvNext,             \* next message id the server assigns
    page, hasMore,       \* pagination of the session list
    \* ---- history of the chat store, for the properties ----
    settled,             \* the sendMessage call that settled last
    returned,            \* the store action that returned last: the response it got, its result
    \* ---- chatApi.streamMessage ----
    phase,               \* "idle", "fetching", "reading", "closed" (loop left) or "rejected"
    stream,              \* the text of the response body, a sequence of characters
    sent,                \* number of characters the reader has delivered
    buffer,              \* let buffer
    log,                 \* the calls of onChunk / onDone / onError, in order
    aborted,             \* controller.signal.aborted
    streamAuth,          \* the token in the Authorization header of the fetch
    \* ---- history of the stream, for the properties ----
    caught,              \* the error that reached the .catch, NoCaught when none
    partial,             \* some read ended inside a line
    cancelledAt,         \* number of callbacks called when the handle was invoked
    \* ---- api/auth.ts and the auth store ----
    continued,           \* the auth requests whose caller has run its continuation
    loggedOut            \* a logout has settled and no login has succeeded since

clientVars == <<accessToken, refreshToken, isRefreshing, refreshSubscribers, location,
                req, refreshCalls, srvValid, nextGen, refreshTotal, expired401, lateArrival>>
chatVars == <<sessions, currentSession, messages, loading, sending, error,
              streamingContent, calls, clock, srvNext, page, hasMore, settled, returned>>
streamVars == <<phase, stream, sent, buffer, log, aborted, streamAuth, caught, partial,
                cancelledAt>>
authVars == <<continued, loggedOut>>
vars == <<clientVars, chatVars, streamVars, authVars>>

(* ======================= api/client.ts ================================= *)

Range(s) == {s[i] : i \in 1..Len(s)}

\* setTokens: both keys are written
setTokens(a, r) == [access |-> a, refresh |-> r]
\* clearTokens: both keys are removed
clearTokens == [access |-> NoToken, refresh |-> NoToken]

\* a request config and the promise its caller holds
NewRequest == [st |-> "new", caller |-> "pending", retry |-> FALSE, auth |-> NoToken,
               sends |-> 0, n401 |-> 0, last |-> "none", url |-> "api"]

\* a promise settles once
Settle(q, outcome) == IF q.caller = "pending" THEN outcome ELSE q.caller

RequestInterceptorNoAttach(hdr, tok) == hdr
\* request interceptor: if (token && config.headers) Authorization = Bearer token
RequestInterceptor(hdr, tok) == IF tok # NoToken THEN tok ELSE hdr

\* apiClient(config): the request interceptor runs with the token stored now,
\* then the request goes out
Dispatch(q, stored) ==
    [q EXCEPT !.st = "sent", !.auth = RequestInterceptor(q.auth, stored),
              !.sends = @ + 1]

\* the continuation a waiting request subscribes: set the header to the token
\* handed over, then re-issue the request
SubscriberCallback(q, token, stored) == Dispatch([q EXCEPT !.auth = token], stored)

RECURSIVE ForEachSubscriber(_, _, _, _)
ForEachSubscriber(reqs, subs, token, stored) ==
    IF subs = <<>> THEN reqs
    ELSE ForEachSubscriber(
             [reqs EXCEPT ![Head(subs)] = SubscriberCallback(reqs[Head(subs)], token, stored)],
             Tail(subs), token, stored)

onTokenRefreshedKeepList(reqs, subs, token, stored) ==
    [reqs |-> ForEachSubscriber(reqs, subs, token, stored), subs |-> subs]
\* onTokenRefreshed: call every continuation, then empty the list
onTokenRefreshed(reqs, subs, token, stored) ==
    [reqs |-> ForEachSubscriber(reqs, subs, token, stored), subs |-> <<>>]

RetryOriginalRejects(q, token, stored) == [q EXCEPT !.st = "done", !.caller = Settle(q, "err")]
\* the request that started the refresh, once it succeeded: set the header to
\* the new token and return apiClient(originalRequest)
RetryOriginal(q, token, stored) == Dispatch([q EXCEPT !.auth = token], stored)

ShouldWaitNoGate(flag) == FALSE
\* the gate of the response interceptor: if (isRefreshing) wait for the refresh
ShouldWait(flag) == flag

TerminalNever(q, rt) == FALSE
\* if (!refreshToken || originalRequest.url?.includes('/auth/refresh'))
Terminal(q, rt) == rt = NoToken \/ q.url = "refresh"

InitClient ==
    /\ \E t \in {NoToken, 1} : accessToken = t /\ refreshToken = t
    /\ isRefreshing = FALSE
    /\ refreshSubscribers = <<>>
    /\ location = "app"
    /\ req = [r \in Requests |-> NewRequest]
    /\ refreshCalls = {}
    /\ srvValid = {1}
    /\ nextGen = 2
    /\ refreshTotal = 0
    /\ expired401 = {}
    /\ lateArrival = FALSE

\* a caller issues request r through apiClient
Send(r) ==
    /\ req[r].st = "new"
    /\ \E u \in {"api", "refresh"} :
          req' = [req EXCEPT ![r] = Dispatch([req[r] EXCEPT !.url = u], accessToken)]
    /\ UNCHANGED <<accessToken, refreshToken, isRefreshing, refreshSubscribers, location,
                   refreshCalls, srvValid, nextGen, refreshTotal, expired401, lateArrival>>
    /\ UNCHANGED <<chatVars, streamVars, authVars>>

\* response interceptor, success handler: (response) => response
Respond200(r) ==
    /\ req[r].st = "sent"
    /\ req[r].auth \in srvValid
    /\ req' = [req EXCEPT ![r] = [req[r] EXCEPT !.st = "done", !.last = "200",
                                                  !.caller = Settle(req[r], "ok")]]
    /\ UNCHANGED <<accessToken, refreshToken, isRefreshing, refreshSubscribers, location,
                   refreshCalls, srvValid, nextGen, refreshTotal, expired401, lateArrival>>
    /\ UNCHANGED <<chatVars, streamVars, authVars>>

\* response interceptor, error handler, status other than 401 (or no response
\* at all): return Promise.reject(error)
RespondError(r) ==
    /\ req[r].st = "sent"
    /\ req' = [req EXCEPT ![r] = [req[r] EXCEPT !.st = "done", !.last = "other",
                                                  !.caller = Settle(req[r], "err")]]
    /\ UNCHANGED <<accessToken, refreshToken, isRefreshing, refreshSubscribers, location,
                   refreshCalls, srvValid, nextGen, refreshTotal, expired401, lateArrival>>
    /\ UNCHANGED <<chatVars, streamVars, authVars>>

\* response interceptor, error handler, status 401
Respond401(r) ==
    /\ req[r].st = "sent"
    /\ req[r].auth \notin srvValid
    /\ LET q == [req[r] EXCEPT !.n401 = @ + 1, !.last = "401"] IN
       IF q.retry
       THEN \* already retried: return Promise.reject(error)
            /\ req' = [req EXCEPT ![r] = [q EXCEPT !.st = "done",
                                                   !.caller = Settle(q, "err")]]
            /\ UNCHANGED <<accessToken, refreshToken, isRefreshing, refreshSubscribers,
                           location, refreshCalls, refreshTotal, expired401, lateArrival>>
       ELSE IF Terminal(q, refreshToken)
       THEN \* clearTokens(); location = '/login'; reject
            /\ accessToken' = clearTokens.access
            /\ refreshToken' = clearTokens.refresh
            /\ location' = "login"
            /\ req' = [req EXCEPT ![r] = [q EXCEPT !.st = "done",
                                                   !.caller = Settle(q, "err")]]
            /\ UNCHANGED <<isRefreshing, refreshSubscribers, refreshCalls, refreshTotal,
                           expired401, lateArrival>>
       ELSE IF ShouldWait(isRefreshing)
       THEN \* subscribeTokenRefresh(continuation); the promise stays pending
            /\ refreshSubscribers' = Append(refreshSubscribers, r)
            /\ req' = [req EXCEPT ![r] = [q EXCEPT !.st = "queued"]]
            /\ expired401' = expired401 \cup {q.auth}
            /\ lateArrival' = (lateArrival \/ (refreshTotal > 0 /\ ~isRefreshing))
            /\ UNCHANGED <<accessToken, refreshToken, isRefreshing, location,
                           refreshCalls, refreshTotal>>
       ELSE \* _retry = true; isRefreshing = true; await axios.post('/auth/refresh')
            /\ req' = [req EXCEPT ![r] = [q EXCEPT !.st = "refreshing", !.retry = TRUE]]
            /\ isRefreshing' = TRUE
            /\ refreshCalls' = refreshCalls \cup {[by |-> r, rt |-> refreshToken]}
            /\ refreshTotal' = refreshTotal + 1
            /\ expired401' = expired401 \cup {q.auth}
            /\ lateArrival' = (lateArrival \/ (refreshTotal > 0 /\ ~isRefreshing))
            /\ UNCHANGED <<accessToken, refreshToken, refreshSubscribers, location>>
    /\ UNCHANGED <<srvValid, nextGen>>
    /\ UNCHANGED <<chatVars, streamVars, authVars>>

\* the refresh call of request c.by succeeds: the server issues a new pair
RefreshSuccess(c) ==
    /\ c \in refreshCalls
    /\ nextGen <= MaxGen
    /\ LET new == setTokens(nextGen, nextGen)
           flushed == onTokenRefreshed(req, refreshSubscribers, new.access, new.access)
       IN
       /\ accessToken' = new.access
       /\ refreshToken' = new.refresh
       /\ isRefreshing' = FALSE
       /\ refreshSubscribers' = flushed.subs
       /\ req' = [flushed.reqs EXCEPT ![c.by] =
                      RetryOriginal(flushed.reqs[c.by], new.access, new.access)]
    /\ refreshCalls' = refreshCalls \ {c}
    /\ srvValid' = srvValid \cup {nextGen}
    /\ nextGen' = nextGen + 1
    /\ UNCHANGED <<location, refreshTotal, expired401, lateArrival>>
    /\ UNCHANGED <<chatVars, streamVars, authVars>>

\* the refresh call of request c.by fails (catch block)
RefreshFailure(c) ==
    /\ c \in refreshCalls
    /\ isRefreshing' = FALSE
    /\ accessToken' = clearTokens.access
    /\ refreshToken' = clearTokens.refresh
    /\ location' = "login"
    /\ req' = [req EXCEPT ![c.by] = [req[c.by] EXCEPT !.st = "done",
                                                       !.caller = Settle(req[c.by], "err")]]
    /\ refreshCalls' = refreshCalls \ {c}
    /\ UNCHANGED <<refreshSubscribers, srvValid, nextGen, refreshTotal, expired401,
                   lateArrival>>
    /\ UNCHANGED <<chatVars, streamVars, authVars>>

\* the server invalidates an access token
Expire(t) ==
    /\ t \in srvValid
    /\ srvValid' = srvValid \ {t}
    /\ UNCHANGED <<accessToken, refreshToken, isRefreshing, refreshSubscribers, location,
                   req, refreshCalls, nextGen, refreshTotal, expired401, lateArrival>>
    /\ UNCHANGED <<chatVars, streamVars, authVars>>

(* ======================= stores/chat.ts ================================ *)

SessionIds == 1..NumSessions
NoSession == 0
NoError == "null"

\* ChatMessage: id, role, and whether the id was generated by the client
UserMessage(now) == [id |-> now, role |-> "user", local |-> TRUE]
ReplyMessage(n) == [id |-> 100 + n, role |-> "ai", local |-> FALSE]

\* a store action suspended at its await
Call(op, id, sid, pre) == [op |-> op, id |-> id, sid |-> sid, pre |-> pre, clean |-> TRUE]
NoCall == [op |-> "none", id |-> 0, sid |-> NoSession, pre |-> <<>>, clean |-> TRUE,
           outcome |-> "none", post |-> <<>>, err |-> NoError]

SendCalls == {c \in calls : c.op = "send"}

\* what a store action got from the server (resp: "success", "envelope" for a
\* response with success false, "throw" for a rejected request, "none" when no
\* request was made; dsid, dmsgs: the session id and messages of the response)
\* and what it returned (val, with num the number when val is "id")
Return(op, id, resp, dsid, dmsgs, val, num) ==
    [op |-> op, id |-> id, resp |-> resp, dsid |-> dsid, dmsgs |-> dmsgs,
     val |-> val, num |-> num]
NoReturn == Return("none", 0, "none", 0, <<>>, "void", 0)

\* the message field of the body of a rejected request's response; "" when the
\* response, its body or the field is missing
NoServerMessage == ""
\* (the same texts whichever request was rejected)
ServerMessages == {NoServerMessage, "Session not found"}

\* catch blocks: axiosError.response?.data?.message || '<fallback>'
ErrorMessage(msg, fallback) == IF msg = NoServerMessage THEN fallback ELSE msg

\* every sendMessage in flight has seen another operation run
Disturb(cs) == {IF d.op = "send" THEN [d EXCEPT !.clean = FALSE] ELSE d : d \in cs}

\* messages.value.push(m)
Push(ms, m) == Append(ms, m)
\* messages.value.pop()
Pop(ms) == IF ms = <<>> THEN ms ELSE SubSeq(ms, 1, Len(ms) - 1)
UnshiftAtEnd(ss, s) == ss \o <<s>>

\* sessions.value.unshift(s)
Unshift(ss, s) == <<s>> \o ss
\* sessions.value.filter(s => s.id !== sessionId)
FilterOut(ss, sid) == SelectSeq(ss, LAMBDA s : s # sid)

InitChat ==
    /\ sessions = <<>>
    /\ currentSession = NoSession
    /\ messages = <<>>
    /\ loading = FALSE
    /\ sending = FALSE
    /\ error = NoError
    /\ streamingContent = ""
    /\ calls = {}
    /\ clock = 1
    /\ srvNext = 1
    /\ page = 1
    /\ hasMore = TRUE
    /\ settled = NoCall
    /\ returned = NoReturn

NoActiveSessionNever(cs) == FALSE
\* sendMessage: if (!currentSession.value) return false
NoActiveSession(cs) == cs = NoSession

\* sendMessage without an active session: return false
SendMessageRefused ==
    /\ clock <= MaxCalls
    /\ NoActiveSession(currentSession)
    /\ returned' = Return("send", clock, "none", 0, <<>>, "false", 0)
    /\ clock' = clock + 1
    /\ UNCHANGED <<sessions, currentSession, messages, loading, sending, error,
                   streamingContent, calls, srvNext, page, hasMore, settled>>
    /\ UNCHANGED <<clientVars, streamVars, authVars>>

\* sendMessage up to its await: optimistic push of the user message
SendMessageStart ==
    /\ clock <= MaxCalls
    /\ ~NoActiveSession(currentSession)
    /\ sending' = TRUE
    /\ error' = NoError
    /\ streamingContent' = ""
    /\ messages' = Push(messages, UserMessage(clock))
    /\ calls' = Disturb(calls) \cup {Call("send", clock, currentSession, messages)}
    /\ clock' = clock + 1
    /\ UNCHANGED <<sessions, currentSession, loading, srvNext, page, hasMore, settled,
                   returned>>
    /\ UNCHANGED <<clientVars, streamVars, authVars>>

\* the record kept of a sendMessage call that has settled
Settled(c, outcome, post, err) ==
    [op |-> c.op, id |-> c.id, sid |-> c.sid, pre |-> c.pre, clean |-> c.clean,
     outcome |-> outcome, post |-> post, err |-> err]

\* sendMessage, response.success false: return false (the list is left as it is)
EnvelopeFalse(ms) == ms

\* sendMessage, catch block: messages.value.pop()
CatchRollback(ms) == Pop(ms)

\* sendMessage, response.success true: messages.value.push(response.data)
SuccessAppend(ms, reply) == Push(ms, reply)

\* sendMessage after its await, response.success true
SendMessageSuccess(c) ==
    /\ c \in SendCalls
    /\ messages' = SuccessAppend(messages, ReplyMessage(srvNext))
    /\ srvNext' = srvNext + 1
    /\ sending' = FALSE
    /\ calls' = Disturb(calls \ {c})
    /\ settled' = Settled(c, "success", messages', error)
    /\ returned' = Return("send", c.id, "success", c.sid, <<ReplyMessage(srvNext)>>, "true", 0)
    /\ UNCHANGED <<sessions, currentSession, loading, error, streamingContent, clock,
                   page, hasMore>>
    /\ UNCHANGED <<clientVars, streamVars, authVars>>

\* sendMessage after its await, a 2xx response whose envelope has success false
SendMessageEnvelopeFalse(c) ==
    /\ c \in SendCalls
    /\ messages' = EnvelopeFalse(messages)
    /\ sending' = FALSE
    /\ calls' = Disturb(calls \ {c})
    /\ settled' = Settled(c, "envelope", messages', error)
    /\ returned' = Return("send", c.id, "envelope", c.sid, <<>>, "false", 0)
    /\ UNCHANGED <<sessions, currentSession, loading, error, streamingContent, clock,
                   srvNext, page, hasMore>>
    /\ UNCHANGED <<clientVars, streamVars, authVars>>

\* sendMessage after its await, the request rejected
SendMessageThrow(c) ==
    /\ c \in SendCalls
    /\ \E msg \in ServerMessages :
          error' = ErrorMessage(msg, "Failed to send message")
    /\ messages' = CatchRollback(messages)
    /\ sending' = FALSE
    /\ calls' = Disturb(calls \ {c})
    /\ settled' = Settled(c, "throw", messages', error')
    /\ returned' = Return("send", c.id, "throw", c.sid, <<>>, "false", 0)
    /\ UNCHANGED <<sessions, currentSession, loading, streamingContent, clock, srvNext,
                   page, hasMore>>
    /\ UNCHANGED <<clientVars, streamVars, authVars>>

\* a createSession call suspended at its await whose caller, handleSend, is
\* suspended on it in turn
AwaitedCreate(id) ==
    [op |-> "create", id |-> id, sid |-> NoSession, pre |-> <<>>, clean |-> TRUE,
     caller |-> "handleSend"]
AwaitedByHandleSend(c) == "caller" \in DOMAIN c

\* createSession up to its await
CreateSessionStart ==
    /\ clock <= MaxCalls
    /\ loading' = TRUE
    /\ error' = NoError
    /\ calls' = Disturb(calls) \cup {Call("create", clock, NoSession, <<>>)}
    /\ clock' = clock + 1
    /\ UNCHANGED <<sessions, currentSession, messages, sending, streamingContent, srvNext,
                   page, hasMore, settled, returned>>
    /\ UNCHANGED <<clientVars, streamVars, authVars>>

\* createSession after its await: success, envelope with success false, or rejection
CreateSessionDone(c) ==
    /\ c \in calls /\ c.op = "create" /\ ~AwaitedByHandleSend(c)
    /\ \/ \E s \in SessionIds \ (Range(sessions) \cup {currentSession}) :
             /\ sessions' = Unshift(sessions, s)
             /\ currentSession' = s
             /\ messages' = <<>>
             /\ returned' = Return("create", c.id, "success", s, <<>>, "id", s)
             /\ UNCHANGED error
       \/ /\ returned' = Return("create", c.id, "envelope", 0, <<>>, "null", 0)
          /\ UNCHANGED <<sessions, currentSession, messages, error>>
       \/ /\ \E msg \in ServerMessages :
                error' = ErrorMessage(msg, "Failed to create session")
          /\ returned' = Return("create", c.id, "throw", 0, <<>>, "null", 0)
          /\ UNCHANGED <<sessions, currentSession, messages>>
    /\ loading' = FALSE
    /\ calls' = Disturb(calls \ {c})
    /\ UNCHANGED <<sending, streamingContent, clock, srvNext, page, hasMore, settled>>
    /\ UNCHANGED <<clientVars, streamVars, authVars>>

\* what GET /api/chat/:id returns as the session's messages
ServerHistories == {<<>>, <<[id |-> 100, role |-> "ai", local |-> FALSE]>>}

\* loadSession: currentSession.value = response.data.session
LoadedSession(cur, s) == s
LoadedMessagesAppended(ms, h) == ms \o h
\* loadSession: messages.value = response.data.messages
LoadedMessages(ms, h) == h

\* loadSession up to its await
LoadSessionStart(sid) ==
    /\ clock <= MaxCalls
    /\ loading' = TRUE
    /\ error' = NoError
    /\ calls' = Disturb(calls) \cup {Call("load", clock, sid, <<>>)}
    /\ clock' = clock + 1
    /\ UNCHANGED <<sessions, currentSession, messages, sending, streamingContent, srvNext,
                   page, hasMore, settled, returned>>
    /\ UNCHANGED <<clientVars, streamVars, authVars>>

\* loadSession after its await
LoadSessionDone(c) ==
    /\ c \in calls /\ c.op = "load"
    /\ \/ \E h \in ServerHistories :
             /\ currentSession' = LoadedSession(currentSession, c.sid)
             /\ messages' = LoadedMessages(messages, h)
             /\ returned' = Return("load", c.id, "success", c.sid, h, "true", 0)
             /\ UNCHANGED error
       \/ /\ returned' = Return("load", c.id, "envelope", 0, <<>>, "false", 0)
          /\ UNCHANGED <<currentSession, messages, error>>
       \/ /\ \E msg \in ServerMessages :
                error' = ErrorMessage(msg, "Failed to load session")
          /\ returned' = Return("load", c.id, "throw", 0, <<>>, "false", 0)
          /\ UNCHANGED <<currentSession, messages>>
    /\ loading' = FALSE
    /\ calls' = Disturb(calls \ {c})
    /\ UNCHANGED <<sessions, sending, streamingContent, clock, srvNext, page, hasMore,
                   settled>>
    /\ UNCHANGED <<clientVars, streamVars, authVars>>

WasActiveAlways(cur, sid) == TRUE
\* deleteSession: if (currentSession.value?.id === sessionId)
WasActive(cur, sid) == cur = sid

\* deleteSession up to its await
DeleteSessionStart(sid) ==
    /\ clock <= MaxCalls
    /\ calls' = Disturb(calls) \cup {Call("delete", clock, sid, <<>>)}
    /\ clock' = clock + 1
    /\ UNCHANGED <<sessions, currentSession, messages, loading, sending, error,
                   streamingContent, srvNext, page, hasMore, settled, returned>>
    /\ UNCHANGED <<clientVars, streamVars, authVars>>

\* deleteSession after its await
DeleteSessionDone(c) ==
    /\ c \in calls /\ c.op = "delete"
    /\ \/ /\ sessions' = FilterOut(sessions, c.sid)
          /\ IF WasActive(currentSession, c.sid)
             THEN currentSession' = NoSession /\ messages' = <<>>
             ELSE UNCHANGED <<currentSession, messages>>
          /\ returned' = Return("delete", c.id, "success", c.sid, <<>>, "true", 0)
          /\ UNCHANGED error
       \/ /\ returned' = Return("delete", c.id, "envelope", c.sid, <<>>, "false", 0)
          /\ UNCHANGED <<sessions, currentSession, messages, error>>
       \/ /\ \E msg \in ServerMessages :
                error' = ErrorMessage(msg, "Failed to delete session")
          /\ returned' = Return("delete", c.id, "throw", c.sid, <<>>, "false", 0)
          /\ UNCHANGED <<sessions, currentSession, messages>>
    /\ calls' = Disturb(calls \ {c})
    /\ UNCHANGED <<loading, sending, streamingContent, clock, srvNext, page, hasMore,
                   settled>>
    /\ UNCHANGED <<clientVars, streamVars, authVars>>

\* GET /api/history?page=p: the sessions of that page (one session a page)
ServerPage(p) == IF p \in SessionIds THEN <<p>> ELSE <<>>

\* a fetchSessions call suspended at chatApi.getHistory(page.value)
FetchCall(id, p, reset) ==
    [op |-> "fetch", id |-> id, sid |-> NoSession, pre |-> <<>>, clean |-> TRUE,
     page |-> p, reset |-> reset]

\* fetchSessions: if (reset) { page.value = 1; hasMore.value = true }
ResetPage(reset, p) == IF reset THEN 1 ELSE p
ResetHasMore(reset, hm) == IF reset THEN TRUE ELSE hm

NoMorePagesNever(hm) == FALSE
\* fetchSessions: if (!hasMore.value) return
NoMorePages(hm) == ~hm

FetchedSessionsAlwaysAppend(ss, reset, data) == ss \o data
\* fetchSessions: reset ? sessions.value = response.data : sessions.value.push(...response.data)
FetchedSessions(ss, reset, data) == IF reset THEN data ELSE ss \o data

\* fetchSessions while hasMore is false and not resetting: return
FetchSessionsSkipped ==
    /\ clock <= MaxCalls
    /\ NoMorePages(ResetHasMore(FALSE, hasMore))
    /\ returned' = Return("fetch", clock, "none", 0, <<>>, "void", 0)
    /\ clock' = clock + 1
    /\ UNCHANGED <<sessions, currentSession, messages, loading, sending, error,
                   streamingContent, calls, srvNext, page, hasMore, settled>>
    /\ UNCHANGED <<clientVars, streamVars, authVars>>

\* fetchSessions up to its await
FetchSessionsStart(reset) ==
    /\ clock <= MaxCalls
    /\ page' = ResetPage(reset, page)
    /\ hasMore' = ResetHasMore(reset, hasMore)
    /\ ~NoMorePages(hasMore')
    /\ loading' = TRUE
    /\ error' = NoError
    /\ calls' = Disturb(calls) \cup {FetchCall(clock, page', reset)}
    /\ clock' = clock + 1
    /\ UNCHANGED <<sessions, currentSession, messages, sending, streamingContent, srvNext,
                   settled, returned>>
    /\ UNCHANGED <<clientVars, streamVars, authVars>>

\* fetchSessions after its await
FetchSessionsDone(c) ==
    /\ c \in calls /\ c.op = "fetch"
    /\ \/ \E hasNext \in BOOLEAN :
             /\ sessions' = FetchedSessions(sessions, c.reset, ServerPage(c.page))
             /\ hasMore' = hasNext
             /\ page' = page + 1
             /\ returned' = Return("fetch", c.id, "success", c.page, <<>>, "void", 0)
             /\ UNCHANGED error
       \/ /\ returned' = Return("fetch", c.id, "envelope", c.page, <<>>, "void", 0)
          /\ UNCHANGED <<sessions, hasMore, page, error>>
       \/ /\ \E msg \in ServerMessages :
                error' = ErrorMessage(msg, "Failed to fetch sessions")
          /\ returned' = Return("fetch", c.id, "throw", c.page, <<>>, "void", 0)
          /\ UNCHANGED <<sessions, hasMore, page>>
    /\ loading' = FALSE
    /\ calls' = Disturb(calls \ {c})
    /\ UNCHANGED <<currentSession, messages, sending, streamingContent, clock, srvNext,
                   settled>>
    /\ UNCHANGED <<clientVars, streamVars, authVars>>

\* clearCurrentSession (synchronous)
ClearCurrentSession ==
    /\ currentSession' = NoSession
    /\ messages' = <<>>
    /\ streamingContent' = ""
    /\ calls' = Disturb(calls)
    /\ UNCHANGED <<sessions, loading, sending, error, clock, srvNext, page, hasMore,
                   settled, returned>>
    /\ UNCHANGED <<clientVars, streamVars, authVars>>

(* ==================== Chat view: handleSend ============================ *)

\* handleSend: if (!trimmedMessage || sending.value) return
HandleSendBlocked(flag) == flag

\* handleSend while a send is shown as in progress: return
HandleSendSkipped ==
    /\ clock <= MaxCalls
    /\ HandleSendBlocked(sending)
    /\ returned' = Return("handleSend", clock, "none", 0, <<>>, "void", 0)
    /\ clock' = clock + 1
    /\ UNCHANGED <<sessions, currentSession, messages, loading, sending, error,
                   streamingContent, calls, srvNext, page, hasMore, settled>>
    /\ UNCHANGED <<clientVars, streamVars, authVars>>

\* handleSend without a session: await chatStore.createSession(...)
HandleSendCreate ==
    /\ clock <= MaxCalls
    /\ ~HandleSendBlocked(sending)
    /\ NoActiveSession(currentSession)
    /\ loading' = TRUE
    /\ error' = NoError
    /\ calls' = Disturb(calls) \cup {AwaitedCreate(clock)}
    /\ clock' = clock + 1
    /\ UNCHANGED <<sessions, currentSession, messages, sending, streamingContent, srvNext,
                   page, hasMore, settled, returned>>
    /\ UNCHANGED <<clientVars, streamVars, authVars>>

\* handleSend with a session: chatStore.sendMessage(...) at once
HandleSendDirect ==
    /\ ~HandleSendBlocked(sending)
    /\ SendMessageStart

\* the createSession awaited by handleSend settles (success, envelope with
\* success false, or rejection) and handleSend goes on to chatStore.sendMessage
HandleSendResume(c) ==
    /\ c \in calls /\ c.op = "create" /\ AwaitedByHandleSend(c)
    /\ \E o \in {"success", "envelope", "throw"}, s \in SessionIds \cup {NoSession},
          msg \in ServerMessages :
          /\ o # "throw" => msg = NoServerMessage
          /\ IF o = "success"
             THEN s \in SessionIds \ (Range(sessions) \cup {currentSession})
             ELSE s = NoSession
          /\ LET cur1 == IF o = "success" THEN s ELSE currentSession
                 msgs1 == IF o = "success" THEN <<>> ELSE messages
                 err1 == IF o = "throw"
                         THEN ErrorMessage(msg, "Failed to create session")
                         ELSE error
             IN
             /\ sessions' = IF o = "success" THEN Unshift(sessions, s) ELSE sessions
             /\ currentSession' = cur1
             /\ loading' = FALSE
             /\ IF NoActiveSession(cur1)
                THEN /\ messages' = msgs1
                     /\ error' = err1
                     /\ calls' = Disturb(calls \ {c})
                     /\ returned' = Return("send", clock, "none", 0, <<>>, "false", 0)
                     /\ UNCHANGED <<sending, streamingContent>>
                ELSE /\ sending' = TRUE
                     /\ error' = NoError
                     /\ streamingContent' = ""
                     /\ messages' = Push(msgs1, UserMessage(clock))
                     /\ calls' = Disturb(calls \ {c}) \cup {Call("send", clock, cur1, msgs1)}
                     /\ returned' = IF o = "success"
                                    THEN Return("create", c.id, o, s, <<>>, "id", s)
                                    ELSE Return("create", c.id, o, 0, <<>>, "null", 0)
    /\ clock' = clock + 1
    /\ UNCHANGED <<srvNext, page, hasMore, settled>>
    /\ UNCHANGED <<clientVars, streamVars, authVars>>

(* =================== router/index.ts: streamMessage ==================== *)
\* Text is a sequence of one-character strings.
Newline == "\n"
DataPrefix == <<"d", "a", "t", "a", ":", " ">>
Sentinel == <<"[", "D", "O", "N", "E", "]">>

\* the payloads and lines a response is made of
ContentPayload == <<"{", "\"", "c", "o", "n", "t", "e", "n", "t", "\"", ":", "\"", "H", "i", "\"", "}">>
TerminalPayload == <<"{", "\"", "d", "o", "n", "e", "\"", ":", "t", "r", "u", "e", ",", "\"", "m", "e", "s", "s", "a", "g", "e", "\"", ":", "{", "\"", "i", "d", "\"", ":", "7", "}", "}">>
MalformedPayload == <<"{", "o", "o", "p", "s">>
LineKinds == {DataPrefix \o ContentPayload, DataPrefix \o TerminalPayload,
              DataPrefix \o Sentinel, DataPrefix \o MalformedPayload, <<>>}

RECURSIVE Join(_)
\* the lines, each followed by a newline
Join(ls) == IF ls = <<>> THEN <<>> ELSE Head(ls) \o <<Newline>> \o Join(Tail(ls))

\* the response bodies: up to MaxLines lines, the last newline present or not
Streams ==
    LET texts == {Join(ls) : ls \in UNION {[1..n -> LineKinds] : n \in 0..MaxLines}}
    IN texts \cup {SubSeq(t, 1, Len(t) - 1) : t \in texts \ {<<>>}}

\* line.startsWith(p)
StartsWith(line, p) == Len(line) >= Len(p) /\ SubSeq(line, 1, Len(p)) = p
\* line.endsWith(p)
EndsWith(line, p) ==
    Len(line) >= Len(p) /\ SubSeq(line, Len(line) - Len(p) + 1, Len(line)) = p
\* line.slice(n)
Slice(line, n) == SubSeq(line, n + 1, Len(line))

RECURSIVE Split(_)
\* text.split('\n'): the segments between the newlines, one more than newlines
Split(text) ==
    IF \A i \in 1..Len(text) : text[i] # Newline
    THEN <<text>>
    ELSE LET i == CHOOSE k \in 1..Len(text) :
                      text[k] = Newline /\ \A j \in 1..(k - 1) : text[j] # Newline
         IN <<SubSeq(text, 1, i - 1)>> \o Split(SubSeq(text, i + 1, Len(text)))

\* JSON.parse on the payloads above and their fragments: an object with a string
\* content, an object with done and a message object, anything else throws
ContentOpen == <<"{", "\"", "c", "o", "n", "t", "e", "n", "t", "\"", ":", "\"">>
ContentClose == <<"\"", "}">>
TerminalOpen == <<"{", "\"", "d", "o", "n", "e", "\"", ":", "t", "r", "u", "e", ",", "\"", "m", "e", "s", "s", "a", "g", "e", "\"", ":", "{", "\"", "i", "d", "\"", ":">>
TerminalClose == <<"}", "}">>
Digits == {"0", "1", "2", "3", "4", "5", "6", "7", "8", "9"}
NoMessage == ""
Parsed(ok, content, done, message) ==
    [ok |-> ok, content |-> content, done |-> done, message |-> message]
JSONParse(data) ==
    IF /\ StartsWith(data, ContentOpen) /\ EndsWith(data, ContentClose)
       /\ Len(data) >= Len(ContentOpen) + Len(ContentClose)
       /\ \A i \in (Len(ContentOpen) + 1)..(Len(data) - Len(ContentClose)) :
              data[i] \notin {"\"", "\\", Newline}
    THEN Parsed(TRUE, SubSeq(data, Len(ContentOpen) + 1, Len(data) - Len(ContentClose)),
                FALSE, NoMessage)
    ELSE IF /\ StartsWith(data, TerminalOpen) /\ EndsWith(data, TerminalClose)
            /\ Len(data) = Len(TerminalOpen) + 1 + Len(TerminalClose)
            /\ data[Len(TerminalOpen) + 1] \in Digits
    THEN Parsed(TRUE, <<>>, TRUE, data[Len(TerminalOpen) + 1])
    ELSE Parsed(FALSE, <<>>, FALSE, NoMessage)

\* one call of a callback: onChunk(text), onDone(message) or onError(error)
Callback(cb, text, arg) == [cb |-> cb, text |-> text, arg |-> arg]
OnChunk(text) == Callback("onChunk", text, "")
OnDone(message) == Callback("onDone", <<>>, message)
OnError(e) == Callback("onError", <<>>, e.message)

IsSentinelNever(data) == FALSE

\* data === '[DONE]'
IsSentinel(data) == data = Sentinel

CatchDiscards(data) == <<>>

\* catch { onChunk(data) }
CatchForward(data) == <<OnChunk(data)>>

\* the body of the for loop for one line
LineCallbacks(line) ==
    IF StartsWith(line, DataPrefix)
    THEN LET data == Slice(line, 6)
             parsed == JSONParse(data)
         IN IF IsSentinel(data) THEN <<>>
            ELSE IF parsed.ok
            THEN (IF parsed.content # <<>> THEN <<OnChunk(parsed.content)>> ELSE <<>>)
                 \o (IF parsed.done /\ parsed.message # NoMessage
                     THEN <<OnDone(parsed.message)>> ELSE <<>>)
            ELSE CatchForward(data)
    ELSE <<>>

RECURSIVE ForEachLine(_)
\* for (const line of lines)
ForEachLine(lines) ==
    IF lines = <<>> THEN <<>> ELSE LineCallbacks(Head(lines)) \o ForEachLine(Tail(lines))

RetainNothing(lines) == <<>>

\* buffer = lines.pop() || ''
Retain(lines) == lines[Len(lines)]
\* lines after the pop
Popped(lines) == SubSeq(lines, 1, Len(lines) - 1)

\* errors that reach the .catch
Error(name, message) == [name |-> name, message |-> message]
NoCaught == Error("none", "")
AbortError == Error("AbortError", "The user aborted a request.")

IsAbortErrorNever(e) == FALSE

\* error.name === 'AbortError'
IsAbortError(e) == e.name = "AbortError"
\* .catch(error => { if (error.name !== 'AbortError') onError(error) })
CatchHandler(e) == IF ~IsAbortError(e) THEN <<OnError(e)>> ELSE <<>>

\* the handle has not been invoked
NotCancelled == -1

InitStream ==
    /\ phase = "idle"
    /\ stream = <<>>
    /\ sent = 0
    /\ buffer = <<>>
    /\ log = <<>>
    /\ aborted = FALSE
    /\ streamAuth = NoToken
    /\ caught = NoCaught
    /\ partial = FALSE
    /\ cancelledAt = NotCancelled

\* 'Authorization': `Bearer ${localStorage.getItem('access_token')}`
AuthorizationHeader(stored) == stored

\* streamMessage(...) is called: the fetch is issued, the handle returned
StreamMessage(s) ==
    /\ phase = "idle"
    /\ phase' = "fetching"
    /\ stream' = s
    /\ streamAuth' = AuthorizationHeader(accessToken)
    /\ UNCHANGED <<sent, buffer, log, aborted, caught, partial, cancelledAt>>
    /\ UNCHANGED <<clientVars, chatVars, authVars>>

\* the returned handle is invoked between two tasks: controller.abort()
Cancel ==
    /\ phase # "idle"
    /\ aborted' = TRUE
    /\ cancelledAt' = IF aborted THEN cancelledAt ELSE Len(log)
    /\ UNCHANGED <<phase, stream, sent, buffer, log, streamAuth, caught, partial>>
    /\ UNCHANGED <<clientVars, chatVars, authVars>>

\* the promise chain rejects with e: the .catch runs
Reject(e) ==
    /\ phase' = "rejected"
    /\ caught' = e
    /\ log' = log \o CatchHandler(e)
    /\ UNCHANGED <<stream, sent, buffer, aborted, streamAuth, partial, cancelledAt>>
    /\ UNCHANGED <<clientVars, chatVars, authVars>>

\* the fetch rejects because the signal was aborted
FetchAborted == phase = "fetching" /\ aborted /\ Reject(AbortError)
\* the fetch rejects with a network error
FetchFailed ==
    phase = "fetching" /\ ~aborted /\ Reject(Error("TypeError", "Failed to fetch"))
\* the server does not accept the token of the header: status 401, !response.ok
ResponseUnauthorized ==
    /\ phase = "fetching" /\ ~aborted
    /\ streamAuth \notin srvValid
    /\ Reject(Error("Error", "HTTP 401"))
\* a response arrives with another status that is !response.ok
ResponseNotOk ==
    phase = "fetching" /\ ~aborted /\ Reject(Error("Error", "HTTP status"))
\* a response arrives without a body
ResponseNoBody ==
    /\ phase = "fetching" /\ ~aborted
    /\ streamAuth \in srvValid
    /\ Reject(Error("Error", "No response body"))
\* an OK response with a body arrives: the reader is taken, the loop entered
ResponseOk ==
    /\ phase = "fetching" /\ ~aborted
    /\ streamAuth \in srvValid
    /\ phase' = "reading"
    /\ buffer' = <<>>
    /\ UNCHANGED <<stream, sent, log, aborted, streamAuth, caught, partial, cancelledAt>>
    /\ UNCHANGED <<clientVars, chatVars, authVars>>

\* reader.read() resolves with the next n characters; one of the callbacks
\* called for its lines (the k-th, none when k is 0) may invoke the handle
Read(n) ==
    /\ phase = "reading" /\ ~aborted
    /\ sent + n <= Len(stream)
    /\ LET lines == Split(buffer \o SubSeq(stream, sent + 1, sent + n))
           called == ForEachLine(Popped(lines))
       IN /\ buffer' = Retain(lines)
          /\ log' = log \o called
          /\ \E k \in 0..Len(called) :
                /\ aborted' = (k > 0)
                /\ cancelledAt' = IF k > 0 THEN Len(log) + k ELSE cancelledAt
    /\ sent' = sent + n
    /\ partial' = (partial \/ buffer' # <<>>)
    /\ UNCHANGED <<phase, stream, streamAuth, caught>>
    /\ UNCHANGED <<clientVars, chatVars, authVars>>

AtEndFlushes(buf) == LineCallbacks(buf)

\* if (done) break: nothing is done with what the buffer still holds
AtEnd(buf) == <<>>

\* reader.read() resolves with done: the loop is left
ReadDone ==
    /\ phase = "reading" /\ ~aborted
    /\ sent = Len(stream)
    /\ phase' = "closed"
    /\ log' = log \o AtEnd(buffer)
    /\ UNCHANGED <<stream, sent, buffer, aborted, streamAuth, caught, partial, cancelledAt>>
    /\ UNCHANGED <<clientVars, chatVars, authVars>>

\* reader.read() rejects with a network error
ReadFailed ==
    phase = "reading" /\ ~aborted /\ Reject(Error("TypeError", "network error"))
\* reader.read() rejects because the signal was aborted
ReadAborted == phase = "reading" /\ aborted /\ Reject(AbortError)


(* =================== api/auth.ts and the auth store ==================== *)

\* the calls of authApi: "login" stands for login, register and
\* changePassword (a success stores the pair of the response), "logout" for
\* logout, "me" for the GET /auth/me of fetchUser
AuthUrls == {"login", "logout", "me"}

InitAuth ==
    /\ continued = {}
    /\ loggedOut = FALSE

\* a caller of authApi whose request has settled and whose continuation (the
\* code after the await) has not run yet: it runs before any other task
Awaiting(r) ==
    /\ req[r].url \in {"logout", "me"}
    /\ req[r].caller # "pending"
    /\ r \notin continued
\* no continuation is due: the event loop takes the next task
Quiet == \A r \in Requests : ~Awaiting(r)

\* fetchUser: if (!getAccessToken()) return false
FetchUserRefused(u, tok) == u = "me" /\ tok = NoToken

\* authApi.login / register / changePassword / logout / me issue their request
SendAuth(r, u) ==
    /\ req[r].st = "new"
    /\ u \in AuthUrls
    /\ ~FetchUserRefused(u, accessToken)
    /\ req' = [req EXCEPT ![r] = Dispatch([req[r] EXCEPT !.url = u], accessToken)]
    /\ UNCHANGED <<accessToken, refreshToken, isRefreshing, refreshSubscribers, location,
                   refreshCalls, srvValid, nextGen, refreshTotal, expired401, lateArrival>>
    /\ UNCHANGED <<chatVars, streamVars, authVars>>

\* POST /auth/login (register, change-password) answers with success: the
\* server issues a pair and authApi stores it with setTokens
LoginSucceeds(r) ==
    /\ req[r].st = "sent" /\ req[r].url = "login"
    /\ nextGen <= MaxGen
    /\ LET new == setTokens(nextGen, nextGen) IN
       /\ accessToken' = new.access
       /\ refreshToken' = new.refresh
    /\ req' = [req EXCEPT ![r] = [req[r] EXCEPT !.st = "done", !.last = "200",
                                                  !.caller = Settle(req[r], "ok")]]
    /\ srvValid' = srvValid \cup {nextGen}
    /\ nextGen' = nextGen + 1
    /\ loggedOut' = FALSE
    /\ UNCHANGED <<isRefreshing, refreshSubscribers, location, refreshCalls, refreshTotal,
                   expired401, lateArrival, continued>>
    /\ UNCHANGED <<chatVars, streamVars>>

\* fetchUser: catch { clearTokens() ... } (a resolved call leaves the tokens)
FetchUserSettled(outcome, tokens) == IF outcome = "err" THEN clearTokens ELSE tokens
\* authApi.logout and the store's logout: finally { clearTokens() }
LogoutSettled(outcome, tokens) == clearTokens

\* the code after the await of authApi.logout / authApi.me runs
Continue(r) ==
    /\ Awaiting(r)
    /\ LET stored == [access |-> accessToken, refresh |-> refreshToken]
           after == IF req[r].url = "logout"
                    THEN LogoutSettled(req[r].caller, stored)
                    ELSE FetchUserSettled(req[r].caller, stored)
       IN /\ accessToken' = after.access
          /\ refreshToken' = after.refresh
    /\ continued' = continued \cup {r}
    /\ loggedOut' = (loggedOut \/ req[r].url = "logout")
    /\ UNCHANGED <<isRefreshing, refreshSubscribers, location, req, refreshCalls, srvValid,
                   nextGen, refreshTotal, expired401, lateArrival>>
    /\ UNCHANGED <<chatVars, streamVars>>

(* ======================= specifications ================================ *)

Init == InitClient /\ InitChat /\ InitStream /\ InitAuth

Next ==
    \/ \E r \in Requests : Send(r)
    \/ \E r \in Requests : Respond200(r)
    \/ \E r \in Requests : RespondError(r)
    \/ \E r \in Requests : Respond401(r)
    \/ \E c \in refreshCalls : RefreshSuccess(c)
    \/ \E c \in refreshCalls : RefreshFailure(c)
    \/ \E t \in Tokens : Expire(t)

\* the API client on its own
Spec == Init /\ [][Next]_vars

NextChat ==
    \/ SendMessageRefused
    \/ SendMessageStart
    \/ \E c \in calls : SendMessageSuccess(c)
    \/ \E c \in calls : SendMessageEnvelopeFalse(c)
    \/ \E c \in calls : SendMessageThrow(c)
    \/ FetchSessionsSkipped
    \/ \E reset \in BOOLEAN : FetchSessionsStart(reset)
    \/ \E c \in calls : FetchSessionsDone(c)
    \/ CreateSessionStart
    \/ \E c \in calls : CreateSessionDone(c)
    \/ \E s \in SessionIds : LoadSessionStart(s)
    \/ \E c \in calls : LoadSessionDone(c)
    \/ \E s \in SessionIds : DeleteSessionStart(s)
    \/ \E c \in calls : DeleteSessionDone(c)
    \/ ClearCurrentSession

\* the chat store on its own (the client idle, a token pair stored)
InitStore == Init /\ accessToken = 1
SpecChat == InitStore /\ [][NextChat]_vars

\* the Chat view: sends go through handleSend; sessions are opened and closed
NextView ==
    \/ HandleSendSkipped
    \/ HandleSendCreate
    \/ HandleSendDirect
    \/ \E c \in calls : HandleSendResume(c)
    \/ \E c \in calls : SendMessageSuccess(c)
    \/ \E c \in calls : SendMessageEnvelopeFalse(c)
    \/ \E c \in calls : SendMessageThrow(c)
    \/ \E sid \in SessionIds : LoadSessionStart(sid)
    \/ \E c \in calls : LoadSessionDone(c)
    \/ ClearCurrentSession

SpecView == InitStore /\ [][NextView]_vars

NextStream ==
    \/ \E s \in Streams : StreamMessage(s)
    \/ Cancel
    \/ FetchAborted
    \/ FetchFailed
    \/ ResponseUnauthorized
    \/ ResponseNotOk
    \/ ResponseNoBody
    \/ ResponseOk
    \/ \E n \in 1..(Len(stream) - sent) : Read(n)
    \/ ReadDone
    \/ ReadFailed
    \/ ReadAborted
    \/ \E t \in srvValid : Expire(t)

SpecStream == Init /\ [][NextStream]_vars

\* the API client with the callers of authApi
NextAuth ==
    \/ Quiet /\ \E r \in Requests : Send(r)
    \/ Quiet /\ \E r \in Requests, u \in AuthUrls : SendAuth(r, u)
    \/ Quiet /\ \E r \in Requests : Respond200(r)
    \/ Quiet /\ \E r \in Requests : RespondError(r)
    \/ Quiet /\ \E r \in Requests : Respond401(r)
    \/ Quiet /\ \E r \in Requests : LoginSucceeds(r)
    \/ Quiet /\ \E c \in refreshCalls : RefreshSuccess(c)
    \/ Quiet /\ \E c \in refreshCalls : RefreshFailure(c)
    \/ Quiet /\ \E t \in Tokens : Expire(t)
    \/ \E r \in Requests : Continue(r)

SpecAuth == Init /\ [][NextAuth]_vars

(* ======================= properties: the API client ==================== *)

\* C1: in every reachable state of the HTTP client at most one call to the
\* token-refresh endpoint is in flight, whatever the number and interleaving
\* of the requests failing with 401.
C1_OneRefreshInFlight == Cardinality(refreshCalls) <= 1

\* a refresh is in flight while every other request has already got its 401
C1_Witness ==
    /\ Cardinality(refreshCalls) = 1
    /\ Len(refreshSubscribers) = NumRequests - 1

\* C2 as stated: when the 401'd requests all carried the same expired token
\* (and a refresh token was stored), exactly one refresh call is issued in
\* total, for every order of the 401 responses and the refresh response.
C2_ExactlyOneRefreshAnyOrder == Cardinality(expired401) = 1 => refreshTotal = 1

\* C2 as amended: exactly one refresh call is issued provided every one of the
\* 401 responses arrives before the refresh response; a 401 that arrives after
\* the refresh has settled starts a further refresh call.
C2_ExactlyOneRefreshBeforeResponse ==
    /\ (Cardinality(expired401) = 1 /\ ~lateArrival) => refreshTotal = 1
    /\ lateArrival => refreshTotal >= 2

\* all requests got 401 with the same token, one refresh served them all and
\* every one of them has been re-issued
C2_Witness ==
    /\ expired401 = {1}
    /\ ~lateArrival
    /\ refreshTotal = 1
    /\ \A r \in Requests : req[r].n401 = 1 /\ req[r].sends = 2

\* C3: when the refresh call succeeds the new token pair is stored, every
\* request waiting for it (the one that started the refresh and every one in
\* the waiting list) is re-issued exactly once carrying the new access token,
\* and the waiting list is empty afterwards.
C3_RefreshSuccessReplaysAll ==
    [][nextGen' # nextGen =>
          /\ accessToken' = nextGen /\ refreshToken' = nextGen
          /\ \A r \in Requests :
                req[r].st \in {"queued", "refreshing"} =>
                    /\ req'[r].st = "sent"
                    /\ req'[r].auth = accessToken'
                    /\ req'[r].sends = req[r].sends + 1
                    /\ req'[r].caller = "pending"
          /\ refreshSubscribers' = <<>>]_vars

\* a refresh has succeeded with a request in the waiting list: both the
\* request that started it and the one that waited are out again with the new token
C3_Witness ==
    /\ refreshSubscribers = <<>>
    /\ accessToken = 2
    /\ \E r \in Requests : /\ req[r].retry /\ req[r].st = "sent"
                           /\ req[r].sends = 2 /\ req[r].auth = 2
    /\ \E r \in Requests : /\ ~req[r].retry /\ req[r].st = "sent"
                           /\ req[r].sends = 2 /\ req[r].auth = 2

\* a step in which a refresh call fails
RefreshFailureStep == refreshCalls' # refreshCalls /\ refreshCalls' \subseteq refreshCalls
                      /\ nextGen' = nextGen

\* C4: when the refresh call fails both tokens are cleared, the client
\* redirects to login, and every request enqueued while the refresh was in
\* flight settles with a failure (its caller's promise rejects).
C4_RefreshFailureFailsQueued ==
    [][RefreshFailureStep =>
          /\ accessToken' = NoToken /\ refreshToken' = NoToken
          /\ location' = "login"
          /\ \A r \in Requests :
                req[r].st = "queued" => req'[r].st = "done" /\ req'[r].caller = "err"]_vars

\* C5: a call that gets 401 while a refresh token is stored is recovered
\* transparently: its caller observes no error while the refresh and the
\* re-issued call are under way, observes the successful response of the
\* re-issued call, and observes an error only when the refresh call itself
\* failed or the re-issued call failed.
C5_TransparentRetry ==
    /\ [](\A r \in Requests :
             /\ req[r].st \in {"queued", "refreshing", "sent"} => req[r].caller = "pending"
             /\ (req[r].n401 >= 1 /\ req[r].sends >= 2 /\ req[r].last = "200")
                    => req[r].caller = "ok")
    /\ [][\A r \in Requests :
             (req[r].caller = "pending" /\ req'[r].caller = "err") =>
                 \/ req'[r].last = "other"
                 \/ /\ req'[r].n401 = req[r].n401 + 1
                    /\ \/ req[r].retry
                       \/ refreshToken = NoToken
                       \/ req[r].url = "refresh"
                 \/ req[r].st = "refreshing" /\ RefreshFailureStep]_vars

\* a call got 401, was re-issued after a refresh and its caller got the
\* successful response
C5_Witness ==
    \E r \in Requests : /\ req[r].n401 = 1 /\ req[r].sends = 2
                        /\ req[r].last = "200" /\ req[r].caller = "ok"

\* C6: each request is re-issued at most once: a request replayed after a
\* refresh (started by it or waited for in the queue) that gets a further 401
\* has the error propagated to its caller and neither starts another refresh
\* nor is enqueued again.
C6_ReissuedAtMostOnce ==
    \A r \in Requests :
        (req[r].sends >= 2 /\ req[r].n401 >= 2) =>
            /\ req[r].retry
            /\ req[r].st = "done"
            /\ req[r].caller = "err"

\* C7: a 401 for a request not marked _retry, when no refresh token is stored
\* or the request is the refresh call itself, clears both tokens, redirects to
\* login and propagates the error; no refresh call is issued, nothing is enqueued.
C7_TerminalUnauthorized ==
    [][\A r \in Requests :
          (/\ req'[r].n401 = req[r].n401 + 1
           /\ ~req[r].retry
           /\ (refreshToken = NoToken \/ req[r].url = "refresh")) =>
              /\ accessToken' = NoToken /\ refreshToken' = NoToken
              /\ location' = "login"
              /\ req'[r].st = "done" /\ req'[r].caller = "err"
              /\ refreshTotal' = refreshTotal
              /\ refreshCalls' = refreshCalls
              /\ refreshSubscribers' = refreshSubscribers]_vars

\* both terminal cases have happened: a refresh-endpoint request got 401 with
\* a refresh token stored, and an API request got 401 with none stored
C7_Witness ==
    /\ location = "login"
    /\ accessToken = NoToken /\ refreshToken = NoToken
    /\ refreshTotal = 0
    /\ \E r \in Requests : /\ req[r].url = "refresh" /\ req[r].last = "401"
                           /\ req[r].auth = 1 /\ req[r].caller = "err"
    /\ \E r \in Requests : /\ req[r].url = "api" /\ req[r].last = "401"
                           /\ req[r].caller = "err"

\* C8: every request sent through the client carries the access token stored
\* at send time when one is stored, and gets no Authorization header added
\* when none is stored.
C8_BearerAttached ==
    [][\A r \in Requests :
          req'[r].sends > req[r].sends =>
              /\ accessToken' # NoToken => req'[r].auth = accessToken'
              /\ accessToken' = NoToken => req'[r].auth = req[r].auth]_vars

\* one request is out with the stored token, another went out with no header
\* after the tokens had been cleared
C8_Witness ==
    /\ \E r \in Requests : req[r].sends = 1 /\ req[r].auth = 1
    /\ \E r \in Requests : req[r].sends = 1 /\ req[r].auth = NoToken /\ req[r].st = "sent"

(* ======================= properties: the chat store ==================== *)

\* C9: a sendMessage with an active session and no other operation
\* interleaved leaves, on success, the pre-call list followed by the user
\* message and the server reply, and on failure the pre-call list with error set.
C9_SendMessageOutcome ==
    (settled.op = "send" /\ settled.clean) =>
        IF settled.outcome = "success"
        THEN /\ Len(settled.post) = Len(settled.pre) + 2
             /\ SubSeq(settled.post, 1, Len(settled.pre)) = settled.pre
             /\ settled.post[Len(settled.pre) + 1] = UserMessage(settled.id)
             /\ settled.post[Len(settled.pre) + 2].role = "ai"
             /\ ~settled.post[Len(settled.pre) + 2].local
        ELSE /\ settled.post = settled.pre
             /\ settled.err # NoError

\* a message created locally that no server-confirmed message follows
Provisional(ms, i) == ms[i].local /\ (i = Len(ms) \/ ms[i + 1].local)

\* C10: whenever no sendMessage call is in flight the message list holds no
\* provisional message: every outcome of sendMessage, a response with
\* success = false included, extends it with server data or removes it.
C10_NoProvisionalLeft ==
    SendCalls = {} => \A i \in 1..Len(messages) : ~Provisional(messages, i)

\* a step in which the store action op is called (it suspends at its await or
\* returns at once)
CalledStep(op) ==
    /\ clock' = clock + 1
    /\ \/ \E c \in calls' : c.id = clock /\ c.op = op
       \/ returned'.id = clock /\ returned'.op = op

\* a step in which a call of the store action op returns
ReturnedStep(op) ==
    \/ returned'.id # returned.id /\ returned'.op = op
    \/ \E c \in calls : c.op = op /\ \A d \in calls' : d.id # c.id

\* C11: sendMessage called with no active session fails immediately: it
\* returns false, issues no network request and leaves the message list, the
\* session list, the sending flag and error unchanged.
C11_NoSessionFailsImmediately ==
    [][(CalledStep("send") /\ currentSession = NoSession) =>
          /\ returned'.id = clock /\ returned'.val = "false"
          /\ calls' = calls
          /\ UNCHANGED <<messages, sessions, sending, error>>]_vars

\* sendMessage was refused while an earlier failure had left error set and
\* another action was in flight
C11_Witness ==
    /\ returned.op = "send" /\ returned.resp = "none" /\ returned.val = "false"
    /\ currentSession = NoSession
    /\ error # NoError
    /\ calls # {}

\* C17: fetchSessions without reset while hasMore is false is a no-op: no
\* network call, and the session list, page cursor, loading, error (and
\* hasMore) stay as they are; so after a first page with has_next = false a
\* further fetchSessions() leaves the list equal to that page.
C17_FetchWithoutMoreIsNoOp ==
    [][(/\ clock' = clock + 1
        /\ \/ \E c \in calls' : c.id = clock /\ c.op = "fetch" /\ ~c.reset
           \/ returned'.id = clock /\ returned'.op = "fetch"
        /\ ~hasMore) =>
          /\ calls' = calls
          /\ UNCHANGED <<sessions, page, hasMore, loading, error>>]_vars

\* the first page came with has_next = false and a second fetchSessions()
\* returned without a request: the list is still that first page
C17_Witness ==
    /\ returned.op = "fetch" /\ returned.resp = "none" /\ returned.id = 2
    /\ calls = {}
    /\ ~hasMore /\ page = 2
    /\ sessions = ServerPage(1)

\* C18: createSession on success prepends the server's session to the list,
\* makes it the active session, empties the message list and returns its id;
\* on failure it returns null and leaves the three unchanged.
C18_CreateSession ==
    [][ReturnedStep("create") =>
          IF returned'.resp = "success"
          THEN /\ sessions' = <<returned'.dsid>> \o sessions
               /\ currentSession' = returned'.dsid
               /\ messages' = <<>>
               /\ returned'.val = "id" /\ returned'.num = returned'.dsid
          ELSE /\ returned'.val = "null"
               /\ UNCHANGED <<sessions, currentSession, messages>>]_vars

\* a session was created while the list already held one
C18_Witness ==
    /\ returned.op = "create" /\ returned.resp = "success"
    /\ Len(sessions) = 2 /\ sessions[1] = returned.dsid
    /\ currentSession = returned.dsid
    /\ messages = <<>>

\* C19: loadSession on success replaces the active session and the message
\* list with the fetched data; on a failed fetch it returns false and leaves
\* the active session, the message list and the session list as they were.
C19_LoadSession ==
    [][ReturnedStep("load") =>
          IF returned'.resp = "success"
          THEN /\ currentSession' = returned'.dsid
               /\ messages' = returned'.dmsgs
               /\ returned'.val = "true"
          ELSE /\ returned'.val = "false"
               /\ UNCHANGED <<currentSession, messages, sessions>>]_vars

\* a load failed while a session with messages was active
C19_Witness ==
    /\ returned.op = "load" /\ returned.resp = "throw" /\ returned.val = "false"
    /\ currentSession # NoSession
    /\ messages # <<>>
    /\ error = "Failed to load session"

\* C20: deleteSession(id) on success removes every entry with that id from
\* the session list and clears the active session and message list only if
\* that session was active; deleting an id absent from the list leaves the
\* list, and an unrelated active session with its messages, unchanged.
C20_DeleteSession ==
    [][(ReturnedStep("delete") /\ returned'.resp = "success") =>
          LET d == returned'.dsid IN
          /\ Len(sessions') = Cardinality({i \in 1..Len(sessions) : sessions[i] # d})
          /\ d \notin Range(sessions')
          /\ \A i, j \in 1..Len(sessions) :
                (i < j /\ sessions[i] # d /\ sessions[j] # d) =>
                    \E k, l \in 1..Len(sessions') :
                        k < l /\ sessions'[k] = sessions[i] /\ sessions'[l] = sessions[j]
          /\ Range(sessions') = Range(sessions) \ {d}
          /\ d \notin Range(sessions) => sessions' = sessions
          /\ currentSession = d => (currentSession' = NoSession /\ messages' = <<>>)
          /\ currentSession # d => UNCHANGED <<currentSession, messages>>
          /\ returned'.val = "true"]_vars

\* a session absent from the list was deleted while another session, with its
\* messages, was active and listed
C20_Witness ==
    /\ returned.op = "delete" /\ returned.resp = "success"
    /\ returned.dsid \notin Range(sessions)
    /\ sessions # <<>>
    /\ currentSession \in Range(sessions)
    /\ messages # <<>>

\* the text the reader has delivered so far
Delivered == SubSeq(stream, 1, sent)
\* the complete lines of a text
CompleteLines(text) == Popped(Split(text))
\* number of calls of the callback cb
Count(cb) == Cardinality({i \in DOMAIN log : log[i].cb = cb})
SentinelLine == DataPrefix \o Sentinel

\* C12: the callbacks depend only on the text delivered, not on how it was
\* cut into reads: after any reads the calls are those of the complete lines
\* of the delivered text, taken as one piece, and the rest is in the buffer;
\* a data line cut by a read yields its one callback.
C12_CallbacksIndependentOfReads ==
    phase \in {"reading", "closed"} =>
        LET lines == Split(Delivered) IN
        /\ log = ForEachLine(SubSeq(lines, 1, Len(lines) - 1))
        /\ buffer = lines[Len(lines)]

\* the one content line arrived cut in two reads and gave one onChunk("Hi")
C12_Witness ==
    /\ phase = "closed"
    /\ partial
    /\ stream = Join(<<DataPrefix \o ContentPayload>>)
    /\ log = <<OnChunk(<<"H", "i">>)>>

\* C13: a line whose payload is exactly [DONE] triggers no callback: the
\* calls made are those of the other complete lines, and a stream consisting
\* only of that line ends with no callback at all.
C13_SentinelSilent ==
    /\ phase \in {"reading", "closed"} =>
           log = ForEachLine(SelectSeq(CompleteLines(Delivered),
                                       LAMBDA l : l # SentinelLine))
    /\ (phase = "closed" /\ stream = Join(<<SentinelLine>>)) => log = <<>>
    /\ (caught = NoCaught) => Count("onError") = 0

\* the stream of the one line data: [DONE] was read to its end
C13_Witness ==
    /\ phase = "closed"
    /\ stream = Join(<<SentinelLine>>)
    /\ log = <<>>
    /\ caught = NoCaught

\* C14: onDone fires exactly once, when a terminal event is parsed: never
\* more than once even if several terminal events arrive, and no onChunk
\* after it.
C14_OnDoneExactlyOnce ==
    /\ Count("onDone") <= 1
    /\ \A i, j \in DOMAIN log :
           (i < j /\ log[i].cb = "onDone") => log[j].cb # "onChunk"
    /\ (phase = "closed" /\ DataPrefix \o TerminalPayload \in Range(CompleteLines(stream)))
           => Count("onDone") = 1

\* C15: the cancellation handle aborts the request (once it is invoked the
\* pending fetch or read can only reject with AbortError, without a
\* callback), an abort never triggers onError, before the response or while
\* reading, and every other failure triggers onError with that error.
C15_AbortSilentOtherFailuresReported ==
    [][/\ (aborted /\ phase \in {"fetching", "reading"} /\ streamVars' # streamVars) =>
              (caught' = AbortError /\ phase' = "rejected" /\ log' = log)
       /\ (caught = NoCaught /\ caught' # NoCaught) =>
              IF caught'.name = "AbortError"
              THEN log' = log
              ELSE log' = Append(log, OnError(caught'))
       /\ caught' = caught =>
              \A i \in DOMAIN log' : (i > Len(log) => log'[i].cb # "onError")]_vars

\* the request was aborted while the body was being read, after callbacks
C15_Witness ==
    /\ aborted
    /\ phase = "rejected"
    /\ caught = AbortError
    /\ sent > 0
    /\ log # <<>>
    /\ Count("onError") = 0

RECURSIVE Forwarded(_)
\* the calls the lines make when every malformed payload is passed to onChunk
Forwarded(lines) ==
    IF lines = <<>> THEN <<>>
    ELSE LET l == Head(lines)
             data == Slice(l, 6)
         IN (IF StartsWith(l, DataPrefix) /\ data # Sentinel /\ ~JSONParse(data).ok
             THEN <<OnChunk(data)>>
             ELSE LineCallbacks(l)) \o Forwarded(Tail(lines))

\* C16: a data line whose payload is not [DONE] and does not parse is
\* forwarded verbatim to onChunk exactly once, triggers no onError and does
\* not stop the processing of the following lines.
C16_MalformedForwarded ==
    /\ phase \in {"reading", "closed"} =>
           /\ log = Forwarded(CompleteLines(Delivered))
           /\ Count("onError") = 0
    /\ \A i \in DOMAIN log : log[i].cb = "onError" => (i = Len(log) /\ caught # NoCaught)

\* a malformed line followed by a content line: both reached onChunk
C16_Witness ==
    /\ phase = "closed"
    /\ stream = Join(<<DataPrefix \o MalformedPayload, DataPrefix \o ContentPayload>>)
    /\ log = <<OnChunk(MalformedPayload), OnChunk(<<"H", "i">>)>>

\* C26: whenever no refresh call is in flight (isRefreshing false) the waiting
\* list of continuations is empty: no continuation of an earlier refresh cycle
\* remains after the refresh has settled, by success or by failure.
C26_NoSubscriberLeftOver == ~isRefreshing => refreshSubscribers = <<>>

\* C29: for every interleaving of fetchSessions calls each page is requested
\* at most once per reset (two calls started one after the other, neither
\* resetting, ask for different pages), the cursor advances by one per applied
\* page, and the session list never holds the same id twice.
C29_FetchSessionsInterleaved ==
    /\ \A c, d \in calls :
           (c.op = "fetch" /\ d.op = "fetch" /\ d.id = c.id + 1 /\ ~c.reset /\ ~d.reset)
               => c.page # d.page
    /\ \A i, j \in 1..Len(sessions) : sessions[i] = sessions[j] => i = j

\* C24: when a sendMessage call fails, the element removed from the message
\* list is exactly the provisional message this call appended, and every
\* other message is kept, whatever other store operations ran meanwhile.
C24_RollbackRemovesOwnMessage ==
    [][(ReturnedStep("send") /\ returned'.resp = "throw") =>
          LET own == UserMessage(returned'.id) IN
          messages' = SelectSeq(messages, LAMBDA m : m # own)]_vars

\* C27: the message list only holds messages of the active session: the reply
\* of a send started in one session is not appended once another session is
\* active or the active session has been cleared.
C27_ReplyOnlyInItsSession ==
    [][(ReturnedStep("send") /\ returned'.resp = "success"
            /\ currentSession' # returned'.dsid) =>
          \A i \in 1..Len(messages') : messages'[i] \notin Range(returned'.dmsgs)]_vars

\* C23: at most one sendMessage is in flight per session at any time, whether
\* it was started by the store action or through the UI handler handleSend.
C23_OneSendPerSession ==
    \A c, d \in SendCalls : c.sid = d.sid => c.id = d.id

\* C30: when the stream ends, the text still held in the buffer (a last line
\* without its newline, even a complete payload or terminal event) is
\* discarded: the calls are those of the newline-terminated lines only.
C30_TrailingTextDiscarded ==
    (phase = "closed" /\ stream # <<>> /\ stream[Len(stream)] # Newline) =>
        /\ buffer # <<>>
        /\ log = ForEachLine(CompleteLines(stream))
        /\ Count("onError") = 0

\* the stream was one terminal event without its newline: no callback
C30_Witness ==
    /\ phase = "closed"
    /\ stream = DataPrefix \o TerminalPayload
    /\ buffer = stream
    /\ log = <<>>

\* C28: once the cancellation handle has been invoked no further onChunk or
\* onDone fires, also when it is invoked inside a callback while later lines
\* of the same chunk are still to be processed.
C28_NoCallbackAfterCancel ==
    aborted =>
        \A i \in DOMAIN log : i > cancelledAt => log[i].cb \notin {"onChunk", "onDone"}

\* C25: a streaming send answered 401 because the access token expired, while
\* a refresh token is stored, is refreshed and re-opened like other API
\* calls: onError is not called.
C25_StreamRefreshedOn401 ==
    (caught = Error("Error", "HTTP 401") /\ refreshToken # NoToken) =>
        Count("onError") = 0

\* C21: once logout has settled, by success or by failure, both tokens are
\* absent from storage and stay absent until a later login, register or
\* password change succeeds, whatever else is in flight.
C21_LoggedOutStaysLoggedOut ==
    loggedOut => (accessToken = NoToken /\ refreshToken = NoToken)

\* C22: the stored pair is written only by a successful login, register,
\* password change or refresh (the pair the server issued), and cleared only
\* by logout or by an unrecoverable refresh failure (the steps that redirect
\* to login); any other step, a request failing otherwise included, leaves
\* both tokens as they are.
C22_TokensChangeOnlyByProtocol ==
    [][(accessToken' # accessToken \/ refreshToken' # refreshToken) =>
          \/ /\ nextGen' = nextGen + 1
             /\ accessToken' = nextGen /\ refreshToken' = nextGen
          \/ /\ \E r \in continued' \ continued : req[r].url = "logout"
             /\ accessToken' = NoToken /\ refreshToken' = NoToken
          \/ /\ location' = "login"
             /\ accessToken' = NoToken /\ refreshToken' = NoToken
             /\ \/ RefreshFailureStep
                \/ \E r \in Requests :
                       /\ req[r].st = "sent" /\ req'[r].last = "401"
                       /\ (refreshToken = NoToken \/ req[r].url = "refresh")]_vars

====
